---- MODULE Spec2Model ----
(***************************************************************************)
(* Model of the comment-extractor batch route (POST /api/process-images)   *)
(* and of its response normalizer.                                          *)
(*                                                                         *)
(* A string is a sequence of one-character strings, so that trimming, the  *)
(* fence and label regular expressions, indexOf / lastIndexOf, substring   *)
(* and JSON.parse are computed character by character as the code does.    *)
(***************************************************************************)
EXTENDS Integers, Sequences, FiniteSets, TLC

(***************************************************************************)
(* Characters and string helpers                                           *)
(***************************************************************************)
QUOTE == "\""
APOS == "'"
NL == "\n"
BSL == "\\"
\* the backquote character, written ^ here
BT == "^"

\* s[i], or the empty string past either end of s
At(s, i) == IF i >= 1 /\ i <= Len(s) THEN s[i] ELSE ""

\* the characters the regular expression class \s and String.trim() take as blank
IsSpace(c) == c \in {" ", NL, "\t"}

IsDigit(c) == c \in {"0", "1", "2", "3", "4", "5", "6", "7", "8", "9"}

MinOf(S) == CHOOSE x \in S : \A y \in S : x <= y
MaxOf(S) == CHOOSE x \in S : \A y \in S : x >= y

\* String.prototype.trim
Trim(s) ==
  LET keep == {i \in 1..Len(s) : ~IsSpace(s[i])}
  IN  IF keep = {} THEN <<>> ELSE SubSeq(s, MinOf(keep), MaxOf(keep))

\* String.prototype.indexOf / lastIndexOf for one character; 0 stands for -1
IndexOf(s, c) ==
  LET I == {i \in 1..Len(s) : s[i] = c} IN IF I = {} THEN 0 ELSE MinOf(I)

LastIndexOf(s, c) ==
  LET I == {i \in 1..Len(s) : s[i] = c} IN IF I = {} THEN 0 ELSE MaxOf(I)

\* substring with the limit forgotten
Substring0Whole(s, n) == s

\* String.prototype.substring(0, n)
Substring0(s, n) == SubSeq(s, 1, IF Len(s) < n THEN Len(s) ELSE n)

\* first index j >= i that is past the end of s or holds a non-blank character
SkipWs(s, i) == MinOf({j \in i..(Len(s) + 1) : ~IsSpace(At(s, j))} \cup {Len(s) + 1})

\* toLowerCase and the case folding of the regular expression flag i, on the
\* capital letters that occur in the labels and the file names
Lower(c) ==
  CASE c = "C" -> "c" [] c = "O" -> "o" [] c = "M" -> "m" [] c = "E" -> "e"
    [] c = "N" -> "n" [] c = "T" -> "t" [] c = "X" -> "x" [] c = "U" -> "u"
    [] c = "S" -> "s" [] c = "R" -> "r" [] c = "A" -> "a" [] c = "P" -> "p"
    [] c = "D" -> "d" [] c = "F" -> "f" [] OTHER -> c

(***************************************************************************)
(* JSON values and JSON.parse                                              *)
(***************************************************************************)
JNull == [t |-> "null", v |-> <<>>]
JBool(b) == [t |-> "bool", v |-> <<b>>]
JNum(digits) == [t |-> "num", v |-> digits]
JStr(s) == [t |-> "str", v |-> s]
JArr(items) == [t |-> "arr", v |-> items]
\* members: a sequence of [k |-> key, val |-> value], keys distinct
JObj(members) == [t |-> "obj", v |-> members]
\* the value undefined: an absent property, an omitted argument
Undefined == [t |-> "undef", v |-> <<>>]

ParseFail == [ok |-> FALSE, v |-> JNull, next |-> 0]
ParseOk(val, next) == [ok |-> TRUE, v |-> val, next |-> next]

\* assignment to a property: a repeated key keeps its place and takes the new value
PutMember(members, k, val) ==
  IF \E i \in 1..Len(members) : members[i].k = k
  THEN [i \in 1..Len(members) |->
          IF members[i].k = k THEN [k |-> k, val |-> val] ELSE members[i]]
  ELSE Append(members, [k |-> k, val |-> val])

\* the characters of a string literal from index j on, up to its closing quote
RECURSIVE ScanString(_, _, _)
ScanString(s, j, acc) ==
  LET c == At(s, j) IN
  IF c = "" \/ c = NL \/ c = "\t" THEN ParseFail
  ELSE IF c = QUOTE THEN ParseOk(JStr(acc), j + 1)
  ELSE IF c = BSL THEN
    LET e == At(s, j + 1) IN
    IF e \in {QUOTE, BSL, "/"} THEN ScanString(s, j + 2, Append(acc, e))
    ELSE IF e = "n" THEN ScanString(s, j + 2, Append(acc, NL))
    ELSE IF e = "t" THEN ScanString(s, j + 2, Append(acc, "\t"))
    ELSE ParseFail
  ELSE ScanString(s, j + 1, Append(acc, c))

DigitsEnd(s, i) == MinOf({j \in i..(Len(s) + 1) : ~IsDigit(At(s, j))})

ParseNumber(s, i) ==
  LET e == DigitsEnd(s, i) IN
  IF s[i] = "0" /\ e > i + 1 THEN ParseFail
  ELSE ParseOk(JNum(SubSeq(s, i, e - 1)), e)

ParseLiteral(s, i, word, val) ==
  IF i + Len(word) - 1 <= Len(s) /\ SubSeq(s, i, i + Len(word) - 1) = word
  THEN ParseOk(val, i + Len(word))
  ELSE ParseFail

RECURSIVE ParseValue(_, _), ParseMembers(_, _, _), ParseElements(_, _, _)
\* the JSON value that starts at index i (blanks before it already skipped)
ParseValue(s, i) ==
  LET c == At(s, i) IN
  IF c = "{" THEN
    LET j == SkipWs(s, i + 1) IN
    IF At(s, j) = "}" THEN ParseOk(JObj(<<>>), j + 1) ELSE ParseMembers(s, j, <<>>)
  ELSE IF c = "[" THEN
    LET j == SkipWs(s, i + 1) IN
    IF At(s, j) = "]" THEN ParseOk(JArr(<<>>), j + 1) ELSE ParseElements(s, j, <<>>)
  ELSE IF c = QUOTE THEN ScanString(s, i + 1, <<>>)
  ELSE IF IsDigit(c) THEN ParseNumber(s, i)
  ELSE IF c = "n" THEN ParseLiteral(s, i, <<"n", "u", "l", "l">>, JNull)
  ELSE IF c = "t" THEN ParseLiteral(s, i, <<"t", "r", "u", "e">>, JBool(TRUE))
  ELSE IF c = "f" THEN ParseLiteral(s, i, <<"f", "a", "l", "s", "e">>, JBool(FALSE))
  ELSE ParseFail

ParseMembers(s, j, acc) ==
  IF At(s, j) # QUOTE THEN ParseFail
  ELSE
    LET key == ScanString(s, j + 1, <<>>) IN
    IF ~key.ok THEN ParseFail
    ELSE
      LET colon == SkipWs(s, key.next) IN
      IF At(s, colon) # ":" THEN ParseFail
      ELSE
        LET val == ParseValue(s, SkipWs(s, colon + 1)) IN
        IF ~val.ok THEN ParseFail
        ELSE
          LET sep == SkipWs(s, val.next)
              members == PutMember(acc, key.v.v, val.v)
          IN  IF At(s, sep) = "," THEN ParseMembers(s, SkipWs(s, sep + 1), members)
              ELSE IF At(s, sep) = "}" THEN ParseOk(JObj(members), sep + 1)
              ELSE ParseFail

ParseElements(s, j, acc) ==
  LET val == ParseValue(s, j) IN
  IF ~val.ok THEN ParseFail
  ELSE
    LET sep == SkipWs(s, val.next)
        items == Append(acc, val.v)
    IN  IF At(s, sep) = "," THEN ParseElements(s, SkipWs(s, sep + 1), items)
        ELSE IF At(s, sep) = "]" THEN ParseOk(JArr(items), sep + 1)
        ELSE ParseFail

\* JSON.parse: one value, blanks allowed around it, nothing else; ok = FALSE
\* stands for the SyntaxError it throws
JSONParse(s) ==
  LET r == ParseValue(s, SkipWs(s, 1)) IN
  IF r.ok /\ SkipWs(s, r.next) > Len(s) THEN r ELSE ParseFail

\* property read parsed.comments of a parsed object; absent stands for undefined
HasMember(obj, k) == \E i \in 1..Len(obj.v) : obj.v[i].k = k
GetMember(obj, k) == obj.v[CHOOSE i \in 1..Len(obj.v) : obj.v[i].k = k].val

\* JavaScript truthiness of a JSON value
Truthy(val) ==
  CASE val.t = "null" -> FALSE
    [] val.t = "undef" -> FALSE
    [] val.t = "bool" -> val.v[1]
    [] val.t = "num" -> val.v # <<"0">>
    [] val.t = "str" -> val.v # <<>>
    [] OTHER -> TRUE

(***************************************************************************)
(* processImage: normalization of the model's response text                *)
(***************************************************************************)
K_comments == <<"c", "o", "m", "m", "e", "n", "t", "s">>
K_text == <<"t", "e", "x", "t">>
K_username == <<"u", "s", "e", "r", "n", "a", "m", "e">>
K_timestamp == <<"t", "i", "m", "e", "s", "t", "a", "m", "p">>
K_likes == <<"l", "i", "k", "e", "s">>
W_json == <<"j", "s", "o", "n">>
W_comment == <<"c", "o", "m", "m", "e", "n", "t">>

\* the length the last-resort comment is cut to
MaxTextLen == 500

FenceAt(s, i) == At(s, i) = BT /\ At(s, i + 1) = BT /\ At(s, i + 2) = BT

\* first index q >= from where three backquotes start; 0 when there is none
FirstFenceFrom(s, from) ==
  LET I == {q \in from..Len(s) : FenceAt(s, q)} IN IF I = {} THEN 0 ELSE MinOf(I)

\* jsonString.match(/BBB(?:json)?\s*([\s\S]*?)\s*BBB/), B the backquote: the
\* leftmost opening fence, an optional json tag, blanks, then the shortest
\* capture that is followed by blanks and a closing fence.  [1] is the capture.
jsonBlockMatch(s) ==
  LET open == FirstFenceFrom(s, 1)
      tag == open + 3
      afterTag == IF tag + 3 <= Len(s) /\ SubSeq(s, tag, tag + 3) = W_json
                  THEN tag + 4 ELSE tag
      start == SkipWs(s, afterTag)
      close == IF open = 0 THEN 0 ELSE FirstFenceFrom(s, start)
      blanks == {p \in start..close : \A r \in p..(close - 1) : IsSpace(s[r])}
  IN  IF open = 0 \/ close = 0 THEN [matched |-> FALSE, group |-> <<>>]
      ELSE [matched |-> TRUE, group |-> SubSeq(s, start, MinOf(blanks) - 1)]

\* Strategy 1: the fenced block, if any, replaces the trimmed text
FenceStrategy(responseText) ==
  LET jsonString == Trim(responseText)
      m == jsonBlockMatch(jsonString)
  IN  IF m.matched THEN Trim(m.group) ELSE jsonString

\* Strategy 2: the span from the first { to the last }
BraceStrategy(jsonString) ==
  LET firstBrace == IndexOf(jsonString, "{")
      lastBrace == LastIndexOf(jsonString, "}")
  IN  IF firstBrace # 0 /\ lastBrace # 0 /\ lastBrace > firstBrace
      THEN SubSeq(jsonString, firstBrace, lastBrace)
      ELSE jsonString

\* the try block without the check of the structure: whatever .comments holds
\* is returned, [] in its place when it is absent or falsy
StructuredParseUnvalidated(responseText) ==
  LET parsedComments == JSONParse(BraceStrategy(FenceStrategy(responseText))) IN
  IF ~parsedComments.ok THEN [ok |-> FALSE, comments |-> <<>>]
  ELSE IF parsedComments.v.t = "obj" /\ HasMember(parsedComments.v, K_comments)
          /\ GetMember(parsedComments.v, K_comments).t = "arr"
    THEN [ok |-> TRUE, comments |-> GetMember(parsedComments.v, K_comments).v]
  ELSE [ok |-> TRUE, comments |-> <<>>]

\* the try block: parse and validate; ok = FALSE stands for any exception in it
\* (SyntaxError of JSON.parse, TypeError on reading .comments of null, or the
\* "Invalid JSON structure" error), all caught by the same handler
StructuredParse(responseText) ==
  LET parsedComments == JSONParse(BraceStrategy(FenceStrategy(responseText))) IN
  IF ~parsedComments.ok THEN [ok |-> FALSE, comments |-> <<>>]
  ELSE IF parsedComments.v.t = "null" THEN [ok |-> FALSE, comments |-> <<>>]
  ELSE IF parsedComments.v.t # "obj" \/ ~HasMember(parsedComments.v, K_comments)
    THEN [ok |-> FALSE, comments |-> <<>>]
  ELSE
    LET comments == GetMember(parsedComments.v, K_comments) IN
    IF ~Truthy(comments) \/ comments.t # "arr"
    THEN [ok |-> FALSE, comments |-> <<>>]
    ELSE [ok |-> TRUE, comments |-> comments.v]

\* the labels of the pattern (?:comment|text|username), flag i
Labels == {W_comment, K_text, K_username}

\* length of the label that starts at index p; 0 when none does
LabelLenAt(s, p) ==
  LET L == {w \in Labels :
              /\ p + Len(w) - 1 <= Len(s)
              /\ \A i \in 1..Len(w) : Lower(s[p + i - 1]) = w[i]}
  IN  IF L = {} THEN 0 ELSE Len(CHOOSE w \in L : TRUE)

\* the class [^"'\n], at an index inside s
IsValueChar(c) == c # "" /\ c \notin {QUOTE, APOS, NL}

\* last index of the run of [^"'\n] characters that starts at index i
ValueRunEnd(s, i) == MinOf({j \in i..Len(s) : ~IsValueChar(At(s, j + 1))})

\* ["']?([^"'\n]+)["']? matched at index q: the index of its last character, 0 on
\* failure
ValueMatchEnd(s, q) ==
  LET from == IF At(s, q) \in {QUOTE, APOS} THEN q + 1 ELSE q IN
  IF ~IsValueChar(At(s, from)) THEN 0
  ELSE LET e == ValueRunEnd(s, from)
       IN  IF At(s, e + 1) \in {QUOTE, APOS} THEN e + 1 ELSE e

\* [:\s]+ taken greedily from index a, k characters of it, giving back one
\* character at a time until the rest of the pattern matches
RECURSIVE SeparatorMatchEnd(_, _, _)
SeparatorMatchEnd(s, a, k) ==
  IF k = 0 THEN 0
  ELSE LET e == ValueMatchEnd(s, a + k)
       IN  IF e # 0 THEN e ELSE SeparatorMatchEnd(s, a, k - 1)

\* length of the run of [:\s] characters that starts at index a
SeparatorRun(s, a) ==
  MinOf({j \in a..(Len(s) + 1) : ~(At(s, j) = ":" \/ IsSpace(At(s, j)))}) - a

\* /(?:comment|text|username)[:\s]+["']?([^"'\n]+)["']?/i matched at index p:
\* the index of the last character of the match, 0 when it does not match there
PatternMatchEnd(s, p) ==
  LET n == LabelLenAt(s, p) IN
  IF n = 0 THEN 0 ELSE SeparatorMatchEnd(s, p + n, SeparatorRun(s, p + n))

\* responseText.match(/.../gi): the matched fragments, left to right, each search
\* resuming after the previous match
RECURSIVE commentPatterns(_, _)
commentPatterns(s, from) ==
  LET starts == {p \in from..Len(s) : PatternMatchEnd(s, p) # 0} IN
  IF starts = {} THEN <<>>
  ELSE LET p == MinOf(starts)
           e == PatternMatchEnd(s, p)
       IN  <<SubSeq(s, p, e)>> \o commentPatterns(s, e + 1)

\* pattern.match(/["']?([^"'\n]+)["']?/): group 1 of the leftmost match, or the
\* whole pattern when nothing matches
PatternText(pattern) ==
  LET starts == {q \in 1..Len(pattern) : ValueMatchEnd(pattern, q) # 0} IN
  IF starts = {} THEN pattern
  ELSE LET q == MinOf(starts)
           from == IF At(pattern, q) \in {QUOTE, APOS} THEN q + 1 ELSE q
       IN  SubSeq(pattern, from, ValueRunEnd(pattern, from))

TextComment(text) == JObj(<<[k |-> K_text, val |-> JStr(text)]>>)

\* the catch block of the earlier route: one comment with the whole response
FallbackCommentsEarly(responseText) == <<TextComment(responseText)>>

\* the catch block: the scraped fragments, or else the one last-resort comment
FallbackComments(responseText) ==
  LET patterns == commentPatterns(responseText, 1) IN
  IF Len(patterns) > 0
  THEN [i \in 1..Len(patterns) |-> TextComment(PatternText(patterns[i]))]
  ELSE <<TextComment(Substring0(responseText, MaxTextLen))>>

\* the comments processImage returns for a response text
NormalizeComments(responseText) ==
  LET parsed == StructuredParse(responseText) IN
  IF parsed.ok THEN parsed.comments ELSE FallbackComments(responseText)

(***************************************************************************)
(* The route handler POST: validation, the file loop, the page loop        *)
(***************************************************************************)
\* most files in one request, most pages in one document
MaxFiles == 2
MaxPages == 2

PdfErrorPrefix ==
  <<"E", "r", "r", "o", "r", " ", "p", "r", "o", "c", "e", "s", "s", "i",
    "n", "g", " ", "P", "D", "F", ":", " ">>

FileErrorPrefix ==
  <<"E", "r", "r", "o", "r", " ", "p", "r", "o", "c", "e", "s", "s", "i",
    "n", "g", " ", "f", "i", "l", "e", ":", " ">>

PagePrefix ==
  <<" ", "(", "p", "a", "g", "e", " ">>

\* the message convertPdfToImages throws when the canvas module cannot be loaded
\* (its first sentence; three more follow in the source)
CanvasMessage ==
  <<"P", "D", "F", " ", "p", "r", "o", "c", "e", "s", "s", "i", "n", "g", " ",
    "i", "s", " ", "n", "o", "t", " ", "a", "v", "a", "i", "l", "a", "b", "l",
    "e", ".">>

\* a message of the error pdfjs rejects loadingTask.promise with
DecodeMessage == <<"I", "n", "v", "a", "l", "i", "d", " ", "P", "D", "F">>

\* a rendering error thrown with no message
RenderMessage == <<>>

\* a message of the error generateContent rejects with
InvokeMessage == <<"f", "e", "t", "c", "h", " ", "f", "a", "i", "l", "e", "d">>

\* a message of the error file.arrayBuffer() rejects with
ReadMessage == <<"r", "e", "a", "d", " ", "f", "a", "i", "l", "e", "d">>

N_shot == <<"a", ".", "p", "n", "g">>

N_scan == <<"b", ".", "P", "D", "F">>

N_doc == <<"c", ".", "p", "d", "f">>

N_form == <<"d">>

N_photo == <<"e">>

W_dotpdf ==
  <<".", "p", "d", "f">>

PdfType == <<"application/pdf">>
PngType == <<"image/png">>
JpegType == <<"image/jpeg">>
NoType == <<>>

\* the File objects a request may carry: name and declared type
FileKinds ==
  { [name |-> N_shot, type |-> PngType],
    [name |-> N_scan, type |-> NoType],
    [name |-> N_doc, type |-> PdfType],
    [name |-> N_form, type |-> PdfType],
    [name |-> N_photo, type |-> NoType] }

FileLists == UNION {[1..n -> FileKinds] : n \in 0..MaxFiles}

\* formData.get("apiKey"): null when the field is absent, else its string
ApiKeys ==
  { [present |-> FALSE, value |-> ""],
    [present |-> TRUE, value |-> ""],
    [present |-> TRUE, value |-> "key"] }

\* a response that follows the instruction
R_json == <<"{", "\"", "c", "o", "m", "m", "e", "n", "t", "s", "\"", ":", "[", "{", "\"", "t", "e", "x", "t", "\"", ":", "\"", "h", "i", "\"", "}", "]", "}">>

\* a response in prose
R_prose == <<"n", "o", "n", "e">>

\* the texts the external model answers with in a batch run
BatchResponses == {R_json}

ToLowerCase(s) == [i \in 1..Len(s) |-> Lower(s[i])]

EndsWith(s, suffix) ==
  Len(s) >= Len(suffix) /\ SubSeq(s, Len(s) - Len(suffix) + 1, Len(s)) = suffix

\* file.type === "application/pdf" || file.name.toLowerCase().endsWith(".pdf")
IsPdf(file) == file.type = PdfType \/ EndsWith(ToLowerCase(file.name), W_dotpdf)

\* decimal digits of a positive page number
RECURSIVE Decimal(_)
Decimal(n) ==
  LET d == <<"0", "1", "2", "3", "4", "5", "6", "7", "8", "9">>[(n % 10) + 1]
  IN  IF n < 10 THEN <<d>> ELSE Append(Decimal(n \div 10), d)

\* displayName without the page
displayNameBare(fileName, pageNumber) == fileName

\* displayName of processImage; pageNumber 0 stands for an omitted argument
displayName(fileName, pageNumber) ==
  IF pageNumber # 0
  THEN fileName \o PagePrefix \o Decimal(pageNumber) \o <<")">>
  ELSE fileName

VARIABLES
  pc,           \* where POST is: "idle", "files", "pages", "done"
  apiKey,       \* formData.get("apiKey")
  files,        \* formData.getAll("files")
  fileIdx,      \* position of the for-of loop over files (1-based)
  pdfImages,    \* pdfImages.length for the document whose pages are being processed
  i,            \* index of the page loop (pages 1..i are done)
  results,      \* the results array; each entry also records where it was pushed
                \* (file: input position; page: page being processed, 0 outside
                \* the page loop; kind: "page", "pdfError" or "fileError")
  calls,        \* the generateContent calls made so far, in order
  raster,       \* per input position, how far the file got before the model is
                \* called: "none", "read" (arrayBuffer rejected), "canvas",
                \* "decode", "render" (convertPdfToImages threw), "ok" with
                \* the number of page images
  response,     \* the response POST returned
  responseText, \* normalizer run: the response text given to it
  source,       \* normalizer run: how responseText was made (document, wrapper)
  normalized,   \* normalizer run: the comments returned for it
  returned,     \* normalizer run: what processImage returned (or that it threw)
  normPc,       \* normalizer run: "ready", "done" (or "off" in a batch run)
  field,        \* export run: the value given to escapeCSV
  escaped,      \* export run: what escapeCSV returned for it
  exported,     \* export run: what handleExportCSV did (a toast, a file, a throw)
  exportPc,     \* export run: "field", "batch", "done" (or "off")
  clientResults,  \* Home: the results state
  clientKey,      \* Home: the apiKey state
  selectedFiles,  \* Home: the files state (acceptedFiles of FileUpload)
  isProcessing,   \* Home: the isProcessing state
  localStorage,   \* the browser's item gemini_api_key (NoKey when not set)
  requests,       \* the requests the page has sent, in order
  clientPc,       \* Home: "unmounted", "idle" once mounted (or "off")
  pending,        \* Home: the fetches of handleProcess that have not settled
  toast,          \* Home: the title of the last toast handleProcess showed
  maxFiles,       \* FileUpload: the maxFiles prop
  lastOp          \* FileUpload: the last handler run, what it was given and
                  \* the acceptedFiles it saw

vars ==
  <<pc, apiKey, files, fileIdx, pdfImages, i, results, calls, raster, response,
    responseText, source, normalized, returned, normPc,
    field, escaped, exported, exportPc,
    clientResults, clientKey, selectedFiles, isProcessing, localStorage, requests,
    clientPc, pending, toast, maxFiles, lastOp>>

batchVars == <<pc, apiKey, files, fileIdx, pdfImages, i, results, calls, raster, response>>
normVars == <<responseText, source, normalized, returned, normPc>>
exportVars == <<field, escaped, exported, exportPc>>
clientVars ==
  <<clientResults, clientKey, selectedFiles, isProcessing, localStorage, requests, clientPc,
    pending, toast, maxFiles, lastOp>>

uploadVars == <<maxFiles, lastOp>>

NoResponse == [status |-> 0, kind |-> "none", error |-> ""]
ErrorResponse(status, message) == [status |-> status, kind |-> "error", error |-> message]
ResultsResponse == [status |-> 200, kind |-> "results", error |-> ""]

NoKey == [present |-> FALSE, value |-> ""]

BatchIdle ==
  /\ pc = "idle"
  /\ apiKey = NoKey
  /\ files = <<>>
  /\ fileIdx = 1
  /\ pdfImages = 0
  /\ i = 0
  /\ results = <<>>
  /\ calls = <<>>
  /\ raster = <<>>
  /\ response = NoResponse

NoSource == [wrapper |-> "none", doc |-> <<>>]

\* processImage has not returned
NoReturn == [kind |-> "none", imageName |-> <<>>, comments |-> <<>>, rawResponse |-> <<>>]

\* no normalizer run
NormIdle ==
  /\ responseText = <<>>
  /\ source = NoSource
  /\ normalized = <<>>
  /\ returned = NoReturn
  /\ normPc = "off"

NoOutcome == [kind |-> "none", title |-> "", text |-> <<>>]

\* no export run
ExportIdle ==
  /\ field = Undefined
  /\ escaped = NoOutcome
  /\ exported = NoOutcome
  /\ exportPc = "off"

NoOp == [op |-> "none", newFiles |-> <<>>, index |-> 0, acceptedFiles |-> <<>>]

\* no FileUpload
UploadIdle ==
  /\ maxFiles = 0
  /\ lastOp = NoOp

\* no page
ClientIdle ==
  /\ clientResults = <<>>
  /\ clientKey = ""
  /\ selectedFiles = <<>>
  /\ isProcessing = FALSE
  /\ localStorage = NoKey
  /\ requests = <<>>
  /\ clientPc = "off"
  /\ pending = 0
  /\ toast = ""
  /\ UploadIdle

Init ==
  /\ BatchIdle
  /\ NormIdle
  /\ ExportIdle
  /\ ClientIdle

\* unshift where push was meant
PushFront(rs, r) == <<r>> \o rs

\* results.push
Push(rs, r) == Append(rs, r)

\* the responses of the batch runs, each normalized once
BatchComments == [text \in BatchResponses |-> NormalizeComments(text)]

\* what processImage returns for a response text of a batch run
ProcessedComment(fileName, pageNumber, text, f) ==
  [ imageName |-> displayName(fileName, pageNumber),
    comments |-> BatchComments[text],
    rawResponse |-> text,
    file |-> f, page |-> pageNumber, kind |-> "page" ]

\* the inner handler's entry with the bare message as rawResponse
PdfErrorResultBare(fileName, message, f, p) ==
  [ imageName |-> fileName,
    comments |-> <<>>,
    rawResponse |-> message,
    file |-> f, page |-> p, kind |-> "pdfError" ]

\* the entry the inner handler (catch pdfError) pushes
PdfErrorResult(fileName, message, f, p) ==
  [ imageName |-> fileName,
    comments |-> <<>>,
    rawResponse |-> PdfErrorPrefix \o message,
    file |-> f, page |-> p, kind |-> "pdfError" ]

\* the entry the outer handler (catch error) pushes
FileErrorResult(fileName, message, f) ==
  [ imageName |-> fileName,
    comments |-> <<>>,
    rawResponse |-> FileErrorPrefix \o message,
    file |-> f, page |-> 0, kind |-> "fileError" ]

\* the guard clauses without the check of files.length
RejectionKeyOnly(key, fs) ==
  IF ~key.present \/ key.value = "" THEN "API key is required" ELSE ""

\* the guard clauses of POST: the message of the rejection, "" when there is none
Rejection(key, fs) ==
  IF ~key.present \/ key.value = "" THEN "API key is required"
  ELSE IF Len(fs) = 0 THEN "No files provided"
  ELSE ""

\* request.formData() failed: the outermost handler answers 500
ReceiveUnreadable ==
  /\ pc = "idle"
  /\ pc' = "done"
  /\ response' = ErrorResponse(500, "Failed to process images")
  /\ UNCHANGED <<apiKey, files, fileIdx, pdfImages, i, results, calls, raster>>
  /\ UNCHANGED <<normVars, exportVars, clientVars>>

\* the form data was read: validate, then enter the file loop
Receive ==
  /\ pc = "idle"
  /\ \E key \in ApiKeys, fs \in FileLists :
       /\ apiKey' = key
       /\ files' = fs
       /\ raster' = [f \in 1..Len(fs) |-> [status |-> "none", pages |-> 0]]
       /\ IF Rejection(key, fs) # ""
          THEN /\ pc' = "done"
               /\ response' = ErrorResponse(400, Rejection(key, fs))
          ELSE /\ pc' = "files"
               /\ response' = response
  /\ UNCHANGED <<fileIdx, pdfImages, i, results, calls>>
  /\ UNCHANGED <<normVars, exportVars, clientVars>>

Call(f, page, mimeType, ok) == [file |-> f, page |-> page, mimeType |-> mimeType, ok |-> ok]
\* file.type || "image/jpeg"
MimeTypeOf(file) == IF file.type # NoType THEN file.type ELSE JpegType

NextFile ==
  /\ fileIdx' = fileIdx + 1
  /\ pc' = "files"
  /\ pdfImages' = 0
  /\ i' = 0

\* an outer handler that swallows the error and pushes nothing
ReadFailsSkips ==
  /\ pc = "files" /\ fileIdx <= Len(files)
  /\ raster' = [raster EXCEPT ![fileIdx] = [status |-> "read", pages |-> 0]]
  /\ NextFile
  /\ UNCHANGED <<apiKey, files, results, calls, response>>
  /\ UNCHANGED <<normVars, exportVars, clientVars>>

\* file.arrayBuffer() rejects: the outer handler pushes the file's error entry
ReadFails ==
  /\ pc = "files" /\ fileIdx <= Len(files)
  /\ results' = Push(results, FileErrorResult(files[fileIdx].name, ReadMessage, fileIdx))
  /\ raster' = [raster EXCEPT ![fileIdx] = [status |-> "read", pages |-> 0]]
  /\ NextFile
  /\ UNCHANGED <<apiKey, files, calls, response>>
  /\ UNCHANGED <<normVars, exportVars, clientVars>>

\* convertPdfToImages throws: no canvas module, the document does not load, or
\* one of its pages does not render (the images rendered before it are dropped
\* with the local array); the inner handler pushes
RasterizeFails ==
  /\ pc = "files" /\ fileIdx <= Len(files)
  /\ IsPdf(files[fileIdx])
  /\ \E fault \in {"canvas", "decode", "render"} :
       /\ raster' = [raster EXCEPT ![fileIdx] = [status |-> fault, pages |-> 0]]
       /\ results' = Push(results,
            PdfErrorResult(files[fileIdx].name,
              CASE fault = "canvas" -> CanvasMessage
                [] fault = "decode" -> DecodeMessage
                [] OTHER -> RenderMessage,
              fileIdx, 0))
  /\ NextFile
  /\ UNCHANGED <<apiKey, files, calls, response>>
  /\ UNCHANGED <<normVars, exportVars, clientVars>>

\* convertPdfToImages returns the images of the n pages of the document
Rasterize ==
  /\ pc = "files" /\ fileIdx <= Len(files)
  /\ IsPdf(files[fileIdx])
  /\ \E n \in 1..MaxPages :
       /\ raster' = [raster EXCEPT ![fileIdx] = [status |-> "ok", pages |-> n]]
       /\ pdfImages' = n
  /\ pc' = "pages"
  /\ i' = 0
  /\ UNCHANGED <<apiKey, files, fileIdx, results, calls, response>>
  /\ UNCHANGED <<normVars, exportVars, clientVars>>

\* one turn of the page loop: processImage(pdfImages[i], "image/png", file.name, i + 1)
ProcessPage ==
  /\ pc = "pages" /\ i < pdfImages
  /\ \E text \in BatchResponses :
       results' = Push(results, ProcessedComment(files[fileIdx].name, i + 1, text, fileIdx))
  /\ calls' = Append(calls, Call(fileIdx, i + 1, PngType, TRUE))
  /\ IF i + 1 < pdfImages
     THEN i' = i + 1 /\ UNCHANGED <<pc, fileIdx, pdfImages>>
     ELSE NextFile
  /\ UNCHANGED <<apiKey, files, raster, response>>
  /\ UNCHANGED <<normVars, exportVars, clientVars>>

\* a page loop that calls the model again for the page whose call failed
ProcessPageFailsRetries ==
  /\ pc = "pages" /\ i < pdfImages
  /\ calls' = Append(calls, Call(fileIdx, i + 1, PngType, FALSE))
  /\ UNCHANGED <<pc, fileIdx, pdfImages, i, results>>
  /\ UNCHANGED <<apiKey, files, raster, response>>
  /\ UNCHANGED <<normVars, exportVars, clientVars>>

\* generateContent rejects inside the page loop: the error leaves the loop and is
\* caught by the inner handler (catch pdfError)
ProcessPageFails ==
  /\ pc = "pages" /\ i < pdfImages
  /\ calls' = Append(calls, Call(fileIdx, i + 1, PngType, FALSE))
  /\ results' = Push(results, PdfErrorResult(files[fileIdx].name, InvokeMessage, fileIdx, i + 1))
  /\ NextFile
  /\ UNCHANGED <<apiKey, files, raster, response>>
  /\ UNCHANGED <<normVars, exportVars, clientVars>>

\* a regular image: processImage(buffer, file.type || "image/jpeg", file.name)
ProcessFile ==
  /\ pc = "files" /\ fileIdx <= Len(files)
  /\ ~IsPdf(files[fileIdx])
  /\ \E text \in BatchResponses :
       results' = Push(results, ProcessedComment(files[fileIdx].name, 0, text, fileIdx))
  /\ calls' = Append(calls, Call(fileIdx, 0, MimeTypeOf(files[fileIdx]), TRUE))
  /\ NextFile
  /\ UNCHANGED <<apiKey, files, raster, response>>
  /\ UNCHANGED <<normVars, exportVars, clientVars>>

\* the image branch outside any per-file handler: the error reaches the
\* outermost handler of POST
ProcessFileFailsThrows ==
  /\ pc = "files" /\ fileIdx <= Len(files)
  /\ ~IsPdf(files[fileIdx])
  /\ calls' = Append(calls, Call(fileIdx, 0, MimeTypeOf(files[fileIdx]), FALSE))
  /\ pc' = "done"
  /\ response' = ErrorResponse(500, "fetch failed")
  /\ UNCHANGED <<apiKey, files, fileIdx, pdfImages, i, results, raster>>
  /\ UNCHANGED <<normVars, exportVars, clientVars>>

\* generateContent rejects for a regular image: the outer handler pushes
ProcessFileFails ==
  /\ pc = "files" /\ fileIdx <= Len(files)
  /\ ~IsPdf(files[fileIdx])
  /\ calls' = Append(calls, Call(fileIdx, 0, MimeTypeOf(files[fileIdx]), FALSE))
  /\ results' = Push(results, FileErrorResult(files[fileIdx].name, InvokeMessage, fileIdx))
  /\ NextFile
  /\ UNCHANGED <<apiKey, files, raster, response>>
  /\ UNCHANGED <<normVars, exportVars, clientVars>>

\* the loop is over: return NextResponse.json({ results })
Respond ==
  /\ pc = "files" /\ fileIdx > Len(files)
  /\ pc' = "done"
  /\ response' = ResultsResponse
  /\ UNCHANGED <<apiKey, files, fileIdx, pdfImages, i, results, calls, raster>>
  /\ UNCHANGED <<normVars, exportVars, clientVars>>

Next ==
  \/ ReceiveUnreadable
  \/ Receive
  \/ ReadFails
  \/ RasterizeFails
  \/ Rasterize
  \/ ProcessPage
  \/ ProcessPageFails
  \/ ProcessFile
  \/ ProcessFileFails
  \/ Respond

Spec == Init /\ [][Next]_vars
(***************************************************************************)
(* Runs of the normalizer alone, over response texts built from documents  *)
(* of the requested shape (serialized, then wrapped the ways the model is  *)
(* seen to wrap its answers) and over prose                                *)
(***************************************************************************)
\* most comments in one document
MaxComments == 2

\* the characters of a string inside a JSON string literal
RECURSIVE Escape(_)
Escape(s) ==
  IF s = <<>> THEN <<>>
  ELSE LET c == Head(s)
       IN  (CASE c = QUOTE -> <<BSL, QUOTE>>
              [] c = BSL -> <<BSL, BSL>>
              [] c = NL -> <<BSL, "n">>
              [] OTHER -> <<c>>) \o Escape(Tail(s))

\* the text of a JSON value, without blanks (as JSON.stringify writes it)
RECURSIVE Stringify(_), StringifyItems(_, _), StringifyMembers(_, _)
Stringify(val) ==
  CASE val.t = "null" -> <<"n", "u", "l", "l">>
    [] val.t = "bool" -> IF val.v[1] THEN <<"t", "r", "u", "e">>
                         ELSE <<"f", "a", "l", "s", "e">>
    [] val.t = "num" -> val.v
    [] val.t = "str" -> <<QUOTE>> \o Escape(val.v) \o <<QUOTE>>
    [] val.t = "arr" -> <<"[">> \o StringifyItems(val.v, 1) \o <<"]">>
    [] OTHER -> <<"{">> \o StringifyMembers(val.v, 1) \o <<"}">>

StringifyItems(items, n) ==
  IF n > Len(items) THEN <<>>
  ELSE Stringify(items[n]) \o (IF n < Len(items) THEN <<",">> ELSE <<>>)
         \o StringifyItems(items, n + 1)

StringifyMembers(members, n) ==
  IF n > Len(members) THEN <<>>
  ELSE <<QUOTE>> \o Escape(members[n].k) \o <<QUOTE, ":">> \o Stringify(members[n].val)
         \o (IF n < Len(members) THEN <<",">> ELSE <<>>)
         \o StringifyMembers(members, n + 1)

Member(k, s) == [k |-> k, val |-> JStr(s)]

\* comments of the requested shape: text, and optionally the other three fields
SampleComments ==
  { JObj(<<Member(K_text, <<"h", "i">>)>>),
    JObj(<<Member(K_username, <<"b", "o", "b">>), Member(K_text, <<"a", ",", " ", "b">>),
           Member(K_timestamp, <<"2", "h">>), Member(K_likes, <<"5">>)>>),
    JObj(<<Member(K_text, <<"a", BT, BT, BT, "b">>)>>),
    JObj(<<Member(K_text, <<BT, BT, BT, "x", BT, BT, BT>>)>>),
    JObj(<<Member(K_text, <<"}", "x", "{">>)>>),
    JObj(<<Member(K_text, <<"q", QUOTE, BSL, NL>>), Member(K_likes, <<"1", "2">>)>>) }

\* the documents {"comments": [...]} with at most MaxComments comments
Docs == UNION {[1..n -> SampleComments] : n \in 0..MaxComments}

DocValue(doc) == JObj(<<[k |-> K_comments, val |-> JArr(doc)]>>)

Wrappers == {"bare", "fence", "jsonFence", "tightFence", "proseFence"}
Fenced == Wrappers \ {"bare"}

W_fence == <<BT, BT, BT>>
W_here == <<"H", "e", "r", "e", " ", "i", "t", " ", "i", "s", ":", "\n">>
W_done == <<"\n", "D", "o", "n", "e", " ", "{", "1", "}", ".">>

\* a document's text, wrapped
Wrap(wrapper, text) ==
  CASE wrapper = "bare" -> text
    [] wrapper = "fence" -> W_fence \o <<NL>> \o text \o <<NL>> \o W_fence
    [] wrapper = "jsonFence" -> W_fence \o W_json \o <<NL>> \o text \o <<NL>> \o W_fence
    [] wrapper = "tightFence" -> W_fence \o text \o W_fence
    [] OTHER -> W_here \o W_fence \o W_json \o <<NL>> \o text \o <<NL>> \o W_fence \o W_done

\* a prose longer than MaxTextLen
LongProse == [n \in 1..(MaxTextLen + 100) |-> IF n % 7 = 0 THEN " " ELSE "z"]

\* responses in prose: no braces, no brackets, no quotes
ProseInputs ==
  { <<>>,
    R_prose,
    <<"I", " ", "s", "e", "e", " ", "n", "o", " ", "w", "o", "r", "d", "s", ".">>,
    <<"n", "o", " ", "c", "o", "m", "m", "e", "n", "t", " ", "h", "e", "r", "e">>,
    <<"t", "h", "e", " ", "t", "e", "x", "t", " ", "i", "s", " ", "h", "e", "r", "e">>,
    <<"U", "s", "e", "r", "n", "a", "m", "e", ":", " ", "b", "o", "b", "\n", "T", "e", "x", "t", ":", " ", "h", "i">>,
    <<"c", "o", "m", "m", "e", "n", "t", ":">>,
    <<"e", "n", "d", "s", " ", "w", "i", "t", "h", " ", "t", "e", "x", "t">>,
    <<"t", "e", "x", "t", "u", "a", "l", " ", "c", "o", "m", "m", "e", "n", "t", "s", "\n">>,
    <<"u", "s", "e", "r", "n", "a", "m", "e", " ", ":", "\n">>,
    LongProse,
    LongProse \o <<" ", "t", "e", "x", "t", ":", " ", "z">> }

\* JSON values that are not an object holding a comments array
OddValues ==
  { JNull, JNum(<<"5">>), JStr(<<"h", "i">>), JBool(TRUE), JArr(<<>>), JObj(<<>>),
    JObj(<<[k |-> K_comments, val |-> JNull]>>),
    JObj(<<[k |-> K_comments, val |-> JStr(<<"x">>)]>>),
    JObj(<<[k |-> K_comments, val |-> JObj(<<>>)]>>),
    JObj(<<[k |-> <<"i", "t", "e", "m", "s">>, val |-> JArr(<<>>)]>>),
    JArr(<<TextComment(<<"h", "i">>)>>) }

\* array elements that are not of the requested shape
LooseComments ==
  { JObj(<<Member(K_text, <<"h", "i">>), Member(<<"i", "d">>, <<"7">>)>>),
    JObj(<<[k |-> K_username, val |-> JNull], Member(K_text, <<"h", "i">>)>>),
    JObj(<<Member(K_username, <<"b", "o", "b">>)>>),
    JObj(<<Member(K_text, <<"h", "i">>), [k |-> K_likes, val |-> JNum(<<"5">>)]>>),
    JNum(<<"5">>),
    JStr(<<"h", "i">>),
    JNull }

\* the documents {"comments": [...]} whose elements are off the requested shape
LooseDocs == UNION {[1..n -> LooseComments] : n \in 1..MaxComments}

\* a fenced block that is not JSON, then the document's text
BesideFence(text) == W_fence \o <<NL, "n", "o", NL>> \o W_fence \o <<NL>> \o text

InitNorm ==
  /\ BatchIdle
  /\ \/ \E w \in Wrappers, doc \in Docs :
          /\ source = [wrapper |-> w, doc |-> doc]
          /\ responseText = Wrap(w, Stringify(DocValue(doc)))
     \/ \E text \in ProseInputs :
          /\ source = [wrapper |-> "prose", doc |-> <<>>]
          /\ responseText = text
     \/ \E val \in OddValues :
          /\ source = [wrapper |-> "odd", doc |-> <<>>]
          /\ responseText = Stringify(val)
     \/ \E n \in 1..(Len(R_json) - 1) :
          /\ source = [wrapper |-> "cut", doc |-> <<>>]
          /\ responseText = SubSeq(R_json, 1, n)
     \/ \E doc \in LooseDocs :
          /\ source = [wrapper |-> "loose", doc |-> doc]
          /\ responseText = Stringify(DocValue(doc))
     \/ \E doc \in Docs :
          /\ source = [wrapper |-> "besideFence", doc |-> doc]
          /\ responseText = BesideFence(Stringify(DocValue(doc)))
  /\ normalized = <<>>
  /\ returned = NoReturn
  /\ normPc = "ready"
  /\ ExportIdle
  /\ ClientIdle

\* processImage, from the response text on, for a file named fileName
Normalize ==
  /\ normPc = "ready"
  /\ normalized' = NormalizeComments(responseText)
  /\ \E pageNumber \in 0..1 :
       returned' = [ kind |-> "returned",
                     imageName |-> displayName(N_scan, pageNumber),
                     comments |-> normalized',
                     rawResponse |-> responseText ]
  /\ normPc' = "done"
  /\ UNCHANGED <<responseText, source>>
  /\ UNCHANGED <<batchVars, exportVars, clientVars>>

NextNorm == Normalize

SpecNorm == InitNorm /\ [][NextNorm]_vars
(***************************************************************************)
(* The CSV export of the page: handleExportCSV, generateCSV, escapeCSV     *)
(***************************************************************************)
\* longest field given to escapeCSV alone
MaxFieldLen == 3

CR == "\r"

Outcome(kind, title, text) == [kind |-> kind, title |-> title, text |-> text]

\* value.replace(/"/g, '""'): every quote is replaced, the two halves of the
\* value one after the other
RECURSIVE ReplaceQuotes(_)
ReplaceQuotes(value) ==
  IF value = <<>> THEN <<>>
  ELSE IF Len(value) = 1 THEN (IF value[1] = QUOTE THEN <<QUOTE, QUOTE>> ELSE value)
  ELSE ReplaceQuotes(SubSeq(value, 1, Len(value) \div 2))
         \o ReplaceQuotes(SubSeq(value, Len(value) \div 2 + 1, Len(value)))

\* String.prototype.includes for one character
Includes(s, c) == \E n \in 1..Len(s) : s[n] = c

\* escapeCSV with the quotes left as they are
escapeCSVUndoubled(value) ==
  IF ~Truthy(value) THEN Outcome("returned", "", <<>>)
  ELSE IF value.t # "str" THEN Outcome("threw", "TypeError", <<>>)
  ELSE IF Includes(value.v, ",") \/ Includes(value.v, QUOTE) \/ Includes(value.v, NL)
       THEN Outcome("returned", "", <<QUOTE>> \o value.v \o <<QUOTE>>)
       ELSE Outcome("returned", "", value.v)

\* escapeCSV: "" for a falsy value; value.replace is not a function (TypeError)
\* for a truthy value that is not a string
escapeCSV(value) ==
  IF ~Truthy(value) THEN Outcome("returned", "", <<>>)
  ELSE IF value.t # "str" THEN Outcome("threw", "TypeError", <<>>)
  ELSE LET escaped_ == ReplaceQuotes(value.v) IN
       IF Includes(escaped_, ",") \/ Includes(escaped_, QUOTE) \/ Includes(escaped_, NL)
       THEN Outcome("returned", "", <<QUOTE>> \o escaped_ \o <<QUOTE>>)
       ELSE Outcome("returned", "", escaped_)

headers ==
  << <<"I", "m", "a", "g", "e", " ", "N", "a", "m", "e">>,
     <<"U", "s", "e", "r", "n", "a", "m", "e">>,
     <<"C", "o", "m", "m", "e", "n", "t", " ", "T", "e", "x", "t">>,
     <<"T", "i", "m", "e", "s", "t", "a", "m", "p">>,
     <<"L", "i", "k", "e", "s">> >>

\* Array.prototype.join
RECURSIVE Join(_, _)
Join(items, sep) ==
  IF items = <<>> THEN <<>>
  ELSE IF Len(items) = 1 THEN items[1]
  ELSE items[1] \o sep \o Join(Tail(items), sep)

\* the row with the comment text before the username
RowCellsTextFirst(comment) ==
  << escapeCSV(comment.imageName), escapeCSV(comment.text), escapeCSV(comment.username),
     escapeCSV(comment.timestamp), escapeCSV(comment.likes) >>

\* the five cells of a row, in the order generateCSV writes them
RowCells(comment) ==
  << escapeCSV(comment.imageName), escapeCSV(comment.username), escapeCSV(comment.text),
     escapeCSV(comment.timestamp), escapeCSV(comment.likes) >>

\* generateCSV: the header line and one line per comment, joined by "\n"
generateCSV(comments) ==
  LET rows == [n \in 1..Len(comments) |-> RowCells(comments[n])] IN
  IF \E n \in 1..Len(rows), j \in 1..5 : rows[n][j].kind = "threw"
  THEN Outcome("threw", "TypeError", <<>>)
  ELSE Outcome("returned", "",
         Join(<<Join(headers, <<",">>)>>
                \o [n \in 1..Len(rows) |-> Join([j \in 1..5 |-> rows[n][j].text], <<",">>)],
              <<NL>>))

\* property read comment.k: undefined when absent, and for a number, a string
\* or a boolean
Prop(value, k) ==
  IF value.t = "obj" /\ HasMember(value, k) THEN GetMember(value, k) ELSE Undefined

\* the flattening loop of handleExportCSV: one entry per comment of each result
RECURSIVE allComments(_)
allComments(rs) ==
  IF rs = <<>> THEN <<>>
  ELSE [m \in 1..Len(Head(rs).comments) |->
          [ imageName |-> JStr(Head(rs).imageName),
            username |-> Prop(Head(rs).comments[m], K_username),
            text |-> Prop(Head(rs).comments[m], K_text),
            timestamp |-> Prop(Head(rs).comments[m], K_timestamp),
            likes |-> Prop(Head(rs).comments[m], K_likes) ]]
       \o allComments(Tail(rs))

\* reading a property of null throws a TypeError
FlattenThrows(rs) ==
  \E n \in 1..Len(rs) : \E m \in 1..Len(rs[n].comments) : rs[n].comments[m].t = "null"

FieldChars == {"a", ",", QUOTE, NL, CR}

\* the values escapeCSV is declared for: string | undefined | null
FieldValues ==
  {Undefined, JNull}
    \cup {JStr(str) : str \in UNION {[1..n -> FieldChars] : n \in 0..MaxFieldLen}}

\* comments as the page holds them
ExportComments ==
  { JObj(<<Member(K_username, <<"b", "o", "b">>),
           Member(K_text, <<QUOTE, "h", "i", QUOTE, ",", " ", "x">>),
           Member(K_timestamp, <<"2", "h">>), Member(K_likes, <<"5">>)>>),
    JObj(<<Member(K_text, <<"x", NL, "y">>)>>) }

CommentLists == UNION {[1..n -> ExportComments] : n \in 0..MaxComments}

\* the results state after a batch: a screenshot, then the pages of a document
ExportBatches ==
  { [n \in 1..Len(lists) |->
       [ imageName |-> IF n = 1 THEN N_shot ELSE displayName(N_scan, n - 1),
         comments |-> lists[n],
         rawResponse |-> R_prose ]] :
    lists \in UNION {[1..k -> CommentLists] : k \in 0..MaxFiles} }

InitExport ==
  /\ BatchIdle
  /\ NormIdle
  /\ clientKey = ""
  /\ selectedFiles = <<>>
  /\ isProcessing = FALSE
  /\ localStorage = NoKey
  /\ requests = <<>>
  /\ clientPc = "off"
  /\ pending = 0
  /\ toast = ""
  /\ UploadIdle
  /\ escaped = NoOutcome
  /\ exported = NoOutcome
  /\ \/ /\ field \in FieldValues
        /\ clientResults = <<>>
        /\ exportPc = "field"
     \/ /\ field = Undefined
        /\ clientResults \in ExportBatches
        /\ exportPc = "batch"

\* one call of escapeCSV
EscapeField ==
  /\ exportPc = "field"
  /\ escaped' = escapeCSV(field)
  /\ exportPc' = "done"
  /\ UNCHANGED <<field, exported>>
  /\ UNCHANGED <<batchVars, normVars, clientVars>>

\* a click on Export CSV
handleExportCSV ==
  /\ exportPc = "batch"
  /\ exported' =
       IF Len(clientResults) = 0 THEN Outcome("toast", "No Data to Export", <<>>)
       ELSE IF FlattenThrows(clientResults) THEN Outcome("threw", "TypeError", <<>>)
       ELSE IF Len(allComments(clientResults)) = 0
         THEN Outcome("toast", "No Comments Found", <<>>)
       ELSE LET csvContent == generateCSV(allComments(clientResults)) IN
            IF csvContent.kind = "threw" THEN csvContent
            ELSE Outcome("file", "Export Complete", csvContent.text)
  /\ exportPc' = "done"
  /\ UNCHANGED <<field, escaped>>
  /\ UNCHANGED <<batchVars, normVars, clientVars>>

NextExport == EscapeField \/ handleExportCSV

SpecExport == InitExport /\ [][NextExport]_vars

\* setResults(data.results): the page shows the batch the route answered with,
\* here the one result processImage returned
setResults ==
  /\ normPc = "done" /\ exportPc = "off"
  /\ clientResults' = << [ imageName |-> returned.imageName,
                           comments |-> returned.comments,
                           rawResponse |-> returned.rawResponse ] >>
  /\ exportPc' = "batch"
  /\ UNCHANGED <<field, escaped, exported>>
  /\ UNCHANGED <<clientKey, selectedFiles, isProcessing, localStorage, requests, clientPc>>
  /\ UNCHANGED <<pending, toast, uploadVars>>
  /\ UNCHANGED <<batchVars, normVars>>

\* from the model's response text to the exported file
NextPipeline == Normalize \/ setResults \/ handleExportCSV

SpecPipeline == InitNorm /\ [][NextPipeline]_vars
(***************************************************************************)
(* The page: Home, its API key field and its Process button                *)
(***************************************************************************)
\* most requests the page sends in one run
MaxRequests == 2

\* what the user may type in the key field
KeyInputs == {"", "k", "k2"}

\* the files state when the run starts
SelectedSamples == {<<>>, <<"s1">>, <<"s1", "s2">>}

\* data.results of the answers the route gives
AnswerSamples ==
  { <<>>,
    <<[imageName |-> N_shot, comments |-> <<TextComment(<<"h", "i">>)>>, rawResponse |-> R_json]>> }

InitClient ==
  /\ BatchIdle
  /\ NormIdle
  /\ ExportIdle
  /\ clientResults = <<>>
  /\ clientKey = ""
  /\ selectedFiles \in SelectedSamples
  /\ isProcessing = FALSE
  /\ localStorage \in {NoKey, [present |-> TRUE, value |-> ""], [present |-> TRUE, value |-> "k"]}
  /\ requests = <<>>
  /\ clientPc = "unmounted"
  /\ pending = 0
  /\ toast = ""
  /\ UploadIdle

\* the effect run on mount: the saved key, when there is one, becomes the state
Mount ==
  /\ clientPc = "unmounted"
  /\ clientKey' = IF localStorage.present /\ localStorage.value # ""
                  THEN localStorage.value ELSE clientKey
  /\ clientPc' = "idle"
  /\ UNCHANGED <<clientResults, selectedFiles, isProcessing, localStorage, requests>>
  /\ UNCHANGED <<pending, toast, uploadVars>>
  /\ UNCHANGED <<batchVars, normVars, exportVars>>

\* handleApiKeyChange: the key field is edited
handleApiKeyChange ==
  /\ clientPc = "idle"
  /\ \E value \in KeyInputs :
       /\ clientKey' = value
       /\ localStorage' = [present |-> TRUE, value |-> value]
  /\ UNCHANGED <<clientResults, selectedFiles, isProcessing, requests, clientPc>>
  /\ UNCHANGED <<pending, toast, uploadVars>>
  /\ UNCHANGED <<batchVars, normVars, exportVars>>

\* the form data handleProcess posts
FormData(key, fs) == [url |-> "/api/process-images", apiKey |-> key, files |-> fs]

\* handleProcess behind a Process button that is never disabled
handleProcessButtonEnabled ==
  /\ clientPc = "idle"
  /\ Len(requests) < MaxRequests
  /\ IF clientKey = ""
     THEN /\ toast' = "API Key Required"
          /\ UNCHANGED <<isProcessing, clientResults, requests, pending>>
     ELSE IF Len(selectedFiles) = 0
     THEN /\ toast' = "No Files Selected"
          /\ UNCHANGED <<isProcessing, clientResults, requests, pending>>
     ELSE /\ isProcessing' = TRUE
          /\ clientResults' = <<>>
          /\ requests' = Append(requests, FormData(clientKey, selectedFiles))
          /\ pending' = pending + 1
          /\ UNCHANGED toast
  /\ UNCHANGED <<clientKey, selectedFiles, localStorage, clientPc, uploadVars>>
  /\ UNCHANGED <<batchVars, normVars, exportVars>>

\* handleProcess up to the fetch, run by a click on the Process button; the
\* button is disabled while isProcessing or with no file selected
handleProcess ==
  /\ clientPc = "idle"
  /\ ~(isProcessing \/ Len(selectedFiles) = 0)
  /\ Len(requests) < MaxRequests
  /\ IF clientKey = ""
     THEN /\ toast' = "API Key Required"
          /\ UNCHANGED <<isProcessing, clientResults, requests, pending>>
     ELSE IF Len(selectedFiles) = 0
     THEN /\ toast' = "No Files Selected"
          /\ UNCHANGED <<isProcessing, clientResults, requests, pending>>
     ELSE /\ isProcessing' = TRUE
          /\ clientResults' = <<>>
          /\ requests' = Append(requests, FormData(clientKey, selectedFiles))
          /\ pending' = pending + 1
          /\ UNCHANGED toast
  /\ UNCHANGED <<clientKey, selectedFiles, localStorage, clientPc, uploadVars>>
  /\ UNCHANGED <<batchVars, normVars, exportVars>>

\* handleProcess from the answer on: the results are shown for a 200 answer; an
\* error status and a rejected fetch end in the catch block; finally
\* isProcessing is reset
handleProcessSettles ==
  /\ pending > 0
  /\ \/ /\ \E rs \in AnswerSamples : clientResults' = rs
        /\ toast' = "Processing Complete"
     \/ /\ toast' = "Processing Failed"
        /\ UNCHANGED clientResults
  /\ isProcessing' = FALSE
  /\ pending' = pending - 1
  /\ UNCHANGED <<clientKey, selectedFiles, localStorage, requests, clientPc, uploadVars>>
  /\ UNCHANGED <<batchVars, normVars, exportVars>>

NextClient == Mount \/ handleApiKeyChange \/ handleProcess \/ handleProcessSettles

SpecClient == InitClient /\ [][NextClient]_vars

\* the fetch of a started request settles: it answers or it rejects
SpecClientFair == SpecClient /\ WF_vars(handleProcessSettles)
(***************************************************************************)
(* FileUpload: the selected list under drops and removals                  *)
(***************************************************************************)
\* largest maxFiles prop
MaxSlots == 3

\* most files in one drop
MaxDrop == 2

FileNames == {"s1", "s2", "s3"}

\* the accepted files a drop hands to onDrop
DropSamples == UNION {[1..n -> FileNames] : n \in 0..MaxDrop}

\* Array.prototype.slice(0, end)
slice(items, end) == SubSeq(items, 1, IF end < Len(items) THEN end ELSE Len(items))

InitUpload ==
  /\ BatchIdle
  /\ NormIdle
  /\ ExportIdle
  /\ clientResults = <<>>
  /\ clientKey = ""
  /\ isProcessing = FALSE
  /\ localStorage = NoKey
  /\ requests = <<>>
  /\ clientPc = "off"
  /\ pending = 0
  /\ toast = ""
  /\ maxFiles \in 0..MaxSlots
  /\ selectedFiles \in UNION {[1..n -> FileNames] : n \in 0..maxFiles}
  /\ lastOp = NoOp

\* onDrop that adds every new file
onDropUntruncated ==
  /\ \E newFiles \in DropSamples :
       LET remainingSlots == maxFiles - Len(selectedFiles) IN
       /\ selectedFiles' = IF remainingSlots <= 0 THEN selectedFiles
                           ELSE selectedFiles \o newFiles
       /\ lastOp' = [op |-> "drop", newFiles |-> newFiles, index |-> 0,
                     acceptedFiles |-> selectedFiles]
  /\ UNCHANGED <<clientResults, clientKey, isProcessing, localStorage, requests, clientPc>>
  /\ UNCHANGED <<pending, toast, maxFiles>>
  /\ UNCHANGED <<batchVars, normVars, exportVars>>

\* onDrop: the new files fill the remaining slots; nothing when none remains
onDrop ==
  /\ \E newFiles \in DropSamples :
       LET remainingSlots == maxFiles - Len(selectedFiles) IN
       /\ selectedFiles' = IF remainingSlots <= 0 THEN selectedFiles
                           ELSE selectedFiles \o slice(newFiles, remainingSlots)
       /\ lastOp' = [op |-> "drop", newFiles |-> newFiles, index |-> 0,
                     acceptedFiles |-> selectedFiles]
  /\ UNCHANGED <<clientResults, clientKey, isProcessing, localStorage, requests, clientPc>>
  /\ UNCHANGED <<pending, toast, maxFiles>>
  /\ UNCHANGED <<batchVars, normVars, exportVars>>

\* acceptedFiles.filter((_, i) => i !== index)
RECURSIVE FilterIndex(_, _, _)
FilterIndex(items, index, at) ==
  IF items = <<>> THEN <<>>
  ELSE (IF at # index THEN <<Head(items)>> ELSE <<>>)
         \o FilterIndex(Tail(items), index, at + 1)

\* removeFile(index), from the X button of the card at that index
removeFile ==
  /\ \E index \in 0..(Len(selectedFiles) - 1) :
       /\ selectedFiles' = FilterIndex(selectedFiles, index, 0)
       /\ lastOp' = [op |-> "remove", newFiles |-> <<>>, index |-> index,
                     acceptedFiles |-> selectedFiles]
  /\ UNCHANGED <<clientResults, clientKey, isProcessing, localStorage, requests, clientPc>>
  /\ UNCHANGED <<pending, toast, maxFiles>>
  /\ UNCHANGED <<batchVars, normVars, exportVars>>

NextUpload == onDrop \/ removeFile

SpecUpload == InitUpload /\ [][NextUpload]_vars
(***************************************************************************)
(* Properties of the batch route (checked under Spec)                      *)
(***************************************************************************)
ResultsOf(f) == {j \in 1..Len(results) : results[j].file = f}
Degraded(r) == r.kind # "page"
RasterFaults == {"canvas", "decode", "render"}
Finished == pc = "done" /\ response.kind = "results"
KeyAbsent == ~apiKey.present \/ apiKey.value = ""
FailedCall(f) == \E c \in 1..Len(calls) : calls[c].file = f /\ ~calls[c].ok
Faulted(f) == raster[f].status \in RasterFaults \cup {"read"} \/ FailedCall(f)
IsErrorDescription(text) ==
  \E prefix \in {PdfErrorPrefix, FileErrorPrefix} :
    Len(text) >= Len(prefix) /\ SubSeq(text, 1, Len(prefix)) = prefix

\* what the claim counts for input f: the page count of a document that was
\* rasterized, 1 for any other file
ExpectedCount(f) ==
  IF IsPdf(files[f]) /\ raster[f].status = "ok" THEN raster[f].pages ELSE 1

RECURSIVE SumExpected(_)
SumExpected(n) == IF n = 0 THEN 0 ELSE ExpectedCount(n) + SumExpected(n - 1)

\* C1: when the batch loop has finished, the length of the results list is the
\* sum over the inputs of 1 for a non-PDF file or a PDF whose rasterization
\* failed, and of the page count for a PDF that was rasterized, also when a
\* model invocation failed on one of its pages.
C1_LengthIsSumOfPages == Finished => Len(results) = SumExpected(Len(files))

\* C2: exactly one result for every page image: a rasterized document of K
\* pages has, for each page 1..K, exactly one result pushed for that page,
\* whether or not the invocation for some page of it failed.
C2_OneResultPerPageImage ==
  Finished =>
    \A f \in 1..Len(files) :
      raster[f].status = "ok" =>
        \A p \in 1..raster[f].pages :
          Cardinality({j \in ResultsOf(f) : results[j].page = p}) = 1

\* C3: in every state the results are in input-file order and, within one
\* document, in ascending page order, whatever succeeded or failed: of two
\* results the earlier one is not of a later file, and if both are of the same
\* file the earlier one is of a lower page.
C3_ResultsInFileAndPageOrder ==
  \A a, b \in 1..Len(results) :
    a < b =>
      /\ results[a].file <= results[b].file
      /\ results[a].file = results[b].file => results[a].page < results[b].page

\* a finished batch where a document's page 1 succeeded and a later page failed,
\* followed by results of another file
C3_Witness ==
  /\ Finished
  /\ \E a, b, c \in 1..Len(results) :
       /\ a < b /\ b < c
       /\ results[a].file = results[b].file
       /\ results[a].kind = "page" /\ Degraded(results[b])
       /\ results[c].file > results[b].file

\* C4: when rasterization of a PDF fails (no canvas, undecodable document, a
\* page that does not render) the model is never invoked for that file, the
\* results hold exactly one entry for it, named by the plain file name, with no
\* comments and a non-empty rawResponse, and the loop has moved on: in a
\* finished batch every later file has its results.
C4_RasterFailureDegradesOneFile ==
  \A f \in 1..Len(files) :
    raster[f].status \in RasterFaults =>
      /\ \A c \in 1..Len(calls) : calls[c].file # f
      /\ Cardinality(ResultsOf(f)) = 1
      /\ \A j \in ResultsOf(f) :
           /\ results[j].imageName = files[f].name
           /\ results[j].comments = <<>>
           /\ results[j].rawResponse # <<>>
      /\ fileIdx > f
      /\ Finished => \A g \in (f + 1)..Len(files) : ResultsOf(g) # {}

\* a finished batch whose first file failed to render a page and whose next file
\* was processed by the model
C4_Witness ==
  /\ Finished
  /\ \E f \in 1..Len(files) :
       /\ raster[f].status = "render"
       /\ f < Len(files)
       /\ \E j \in ResultsOf(f + 1) : results[j].kind = "page"

\* C5: every file at which a fault occurs (reading, rasterization, model
\* invocation) gets exactly one degraded result (no comments, rawResponse an
\* error description), the loop goes on after it, and a finished batch has a
\* result for every input file.
C5_FaultBecomesOneDegradedResult ==
  /\ \A f \in 1..Len(files) :
       Faulted(f) =>
         LET D == {j \in ResultsOf(f) : Degraded(results[j])} IN
         /\ Cardinality(D) = 1
         /\ \A j \in D : /\ results[j].comments = <<>>
                         /\ IsErrorDescription(results[j].rawResponse)
         /\ fileIdx > f
  /\ Finished => \A f \in 1..Len(files) : ResultsOf(f) # {}

\* a finished batch of two files: the invocation for the first failed, the
\* second was processed
C5_Witness ==
  /\ Finished
  /\ Len(files) = 2
  /\ FailedCall(1)
  /\ \E j \in ResultsOf(2) : results[j].kind = "page"

\* C6: when the API key is absent or empty, or no file was sent, the request is
\* answered 400 with an error message and the batch never starts: nothing is
\* read or rasterized, the model is not invoked, no results are returned.
C6_InvalidRequestRejected ==
  (pc # "idle" /\ response.status # 500 /\ (KeyAbsent \/ Len(files) = 0)) =>
    /\ pc = "done"
    /\ response.status = 400 /\ response.kind = "error" /\ response.error # ""
    /\ results = <<>>
    /\ calls = <<>>
    /\ \A f \in 1..Len(files) : raster[f].status = "none"

\* a request with a key and no files, rejected
C6_Witness ==
  /\ pc = "done"
  /\ response.status = 400
  /\ ~KeyAbsent
  /\ files = <<>>

\* a step the loop can take whatever the file is: its read fails, the call for
\* the next page fails (it is answered under the same guard), or the loop is over
LoopStep == ReadFails \/ ProcessPageFails \/ Respond

\* after validation: no error response, the loop can always take its next
\* step, and the answer is the results list, with a result for every file
AfterValidation ==
  (pc # "idle" /\ ~KeyAbsent /\ files # <<>>) =>
    /\ response.kind # "error"
    /\ pc \in {"files", "pages"} => response = NoResponse /\ ENABLED LoopStep
    /\ pc = "done" =>
         /\ response = ResultsResponse
         /\ \A f \in 1..Len(files) : ResultsOf(f) # {}

\* C7 as stated: the only request-level error responses are the 400 rejections
\* for a missing credential or an empty file set, and after validation the
\* route always answers with the results list.
C7_OnlyClientErrors ==
  /\ response.kind = "error" =>
       response.status = 400 /\ (KeyAbsent \/ files = <<>>)
  /\ AfterValidation

\* C7, amended: the request-level error responses are the 400 rejections for a
\* missing credential or an empty file set and the 500 answer given when the
\* request's form data cannot be read (before validation, nothing started);
\* after validation no failure leaves the batch loop and the route always
\* answers with the results list.
C7_ErrorsBeforeTheBatchOnly ==
  /\ response.kind = "error" =>
       \/ response.status = 400 /\ (KeyAbsent \/ files = <<>>)
       \/ /\ response.status = 500
          /\ apiKey = NoKey /\ files = <<>> /\ results = <<>> /\ calls = <<>>
  /\ AfterValidation

\* a finished batch that returned both a degraded result and a processed one
C7_Witness ==
  /\ Finished
  /\ \E a, b \in 1..Len(results) : Degraded(results[a]) /\ results[b].kind = "page"
\* the page images produced for input f: the pages of a rasterized document,
\* one image for a file that is not a PDF once it was read
PageImages(f) ==
  IF IsPdf(files[f]) THEN raster[f].pages
  ELSE IF f < fileIdx /\ raster[f].status # "read" THEN 1 ELSE 0

RECURSIVE SumPageImages(_)
SumPageImages(n) == IF n = 0 THEN 0 ELSE PageImages(n) + SumPageImages(n - 1)

\* C19: the model is invoked at most once per page image and never again after
\* a failure: the calls are in file order and then page order with no page
\* called twice, each call is for a page image that was produced, the number
\* of calls never exceeds the number of page images, and every call has
\* finished, its result pushed, before the next one is made.
C19_AtMostOneCallPerPageImage ==
  /\ \A a, b \in 1..Len(calls) :
       a < b =>
         \/ calls[a].file < calls[b].file
         \/ calls[a].file = calls[b].file /\ calls[a].page < calls[b].page
  /\ \A c \in 1..Len(calls) :
       /\ calls[c].file <= Len(files)
       /\ IF calls[c].page = 0 THEN PageImages(calls[c].file) = 1
          ELSE calls[c].page <= PageImages(calls[c].file)
       /\ \E j \in ResultsOf(calls[c].file) :
            /\ results[j].page = calls[c].page
            /\ Degraded(results[j]) = ~calls[c].ok
  /\ Len(calls) <= SumPageImages(Len(files))

\* a finished batch with three calls, one of them failed and followed by a call
\* for the next file
C19_Witness ==
  /\ Finished
  /\ Len(calls) >= 3
  /\ \E a, b \in 1..Len(calls) :
       a < b /\ ~calls[a].ok /\ calls[b].file > calls[a].file

\* the claim's test of a PDF, on the characters of the name
PdfLike(file) ==
  \/ file.type = <<"application/pdf">>
  \/ /\ Len(file.name) >= 4
     /\ file.name[Len(file.name) - 3] = "."
     /\ file.name[Len(file.name) - 2] \in {"p", "P"}
     /\ file.name[Len(file.name) - 1] \in {"d", "D"}
     /\ file.name[Len(file.name)] \in {"f", "F"}

\* "<file name> (page p)", p below ten
PageName(name, p) ==
  name \o <<" ", "(", "p", "a", "g", "e", " ">>
       \o <<(<<"1", "2", "3", "4", "5", "6", "7", "8", "9">>)[p]>> \o <<")">>

\* C20: a file is handled as a PDF exactly when its declared type is
\* application/pdf or its name ends in .pdf in any letter case.  Page p of a
\* PDF (from 1, in order) is sent as image/png and its result is named
\* "<file name> (page p)"; any other file is sent once, with its declared type
\* (image/jpeg when it declares none), and its result is named by the file name.
C20_PdfDispatchAndNames ==
  /\ \A f \in 1..Len(files) :
       /\ raster[f].status \in RasterFaults \cup {"ok"} => PdfLike(files[f])
       /\ (f < fileIdx /\ raster[f].status = "none") =>
            /\ ~PdfLike(files[f])
            /\ Cardinality({c \in 1..Len(calls) : calls[c].file = f}) = 1
  /\ \A c \in 1..Len(calls) :
       LET file == files[calls[c].file] IN
       IF PdfLike(file)
       THEN /\ calls[c].page >= 1
            /\ calls[c].mimeType = <<"image/png">>
            /\ Cardinality({d \in 1..c : calls[d].file = calls[c].file}) = calls[c].page
       ELSE /\ calls[c].page = 0
            /\ calls[c].mimeType =
                 (IF file.type = <<>> THEN <<"image/jpeg">> ELSE file.type)
  /\ \A j \in 1..Len(results) :
       results[j].kind = "page" =>
         results[j].imageName =
           (IF PdfLike(files[results[j].file])
            THEN PageName(files[results[j].file].name, results[j].page)
            ELSE files[results[j].file].name)

\* a finished batch of a document known by its type alone, with two pages
\* processed, and an image with no declared type
C20_Witness ==
  /\ Finished
  /\ Len(files) = 2
  /\ files[1] = [name |-> <<"d">>, type |-> <<"application/pdf">>]
  /\ files[2] = [name |-> <<"e">>, type |-> <<>>]
  /\ Len(results) = 3
  /\ \A j \in 1..3 : results[j].kind = "page"
(***************************************************************************)
(* Properties of the normalizer (checked under SpecNorm)                   *)
(***************************************************************************)
NoNullField(comment) ==
  comment.t = "obj" /\ \A m \in 1..Len(comment.v) : comment.v[m].val.t # "null"

\* C8: for a response text that is the JSON text of a document of the requested
\* shape, the normalizer returns exactly the comments of the document, in
\* order, every field intact, and no returned comment has a null field.
C8_ValidJsonRecovered ==
  (normPc = "done" /\ source.wrapper = "bare") =>
    /\ normalized = source.doc
    /\ \A n \in 1..Len(normalized) : NoNullField(normalized[n])

\* C9: for a document of the requested shape, its JSON text wrapped in a code
\* fence (tagged json or not, with or without prose around the fence) is
\* normalized to the same comments as the JSON text alone, also when comment
\* texts contain backquotes or braces.
C9_FenceTransparent ==
  (normPc = "done" /\ source.wrapper \in Fenced) =>
    normalized = NormalizeComments(Stringify(DocValue(source.doc)))

\* a label (comment, text or username, in any case) that starts at index p and
\* is followed by one or more colons or blanks and then by a value character,
\* or by a quote and a value character
LabelFragmentAt(s, p) ==
  \E w \in Labels :
    /\ p + Len(w) - 1 <= Len(s)
    /\ \A n \in 1..Len(w) : Lower(s[p + n - 1]) = w[n]
    /\ \E q \in (p + Len(w) + 1)..Len(s) :
         /\ \A r \in (p + Len(w))..(q - 1) : s[r] = ":" \/ IsSpace(s[r])
         /\ \/ IsValueChar(s[q])
            \/ s[q] \in {QUOTE, APOS} /\ IsValueChar(At(s, q + 1))

HasLabelFragment(s) == \E p \in 1..Len(s) : LabelFragmentAt(s, p)

\* text is s cut to its first MaxTextLen characters
IsTruncationOf(text, s) ==
  /\ Len(text) = (IF Len(s) > MaxTextLen THEN MaxTextLen ELSE Len(s))
  /\ \A n \in 1..Len(text) : text[n] = s[n]

IsSingleTextComment(comments, s) ==
  /\ Len(comments) = 1
  /\ comments[1].t = "obj"
  /\ Len(comments[1].v) = 1
  /\ comments[1].v[1].k = K_text
  /\ comments[1].v[1].val.t = "str"
  /\ IsTruncationOf(comments[1].v[1].val.v, s)

FallsThrough == source.wrapper \in {"prose", "odd", "cut"}

\* a comment with the one field text, a string
IsTextOnly(comment) ==
  /\ comment.t = "obj"
  /\ Len(comment.v) = 1
  /\ comment.v[1].k = K_text
  /\ comment.v[1].val.t = "str"

\* C11: normalization never surfaces as an error.  For every response text
\* (empty, malformed, cut short, of the wrong top-level shape, JSON null or a
\* scalar) processImage returns: the result carries the response text verbatim
\* as rawResponse and the normalized comments, and for a text that is no
\* document at all these are a non-empty sequence of text-only comments.
C11_NormalizationNeverAnError ==
  normPc = "done" =>
    /\ returned.kind = "returned"
    /\ returned.rawResponse = responseText
    /\ returned.comments = normalized
    /\ FallsThrough =>
         /\ returned.comments # <<>>
         /\ \A n \in 1..Len(returned.comments) : IsTextOnly(returned.comments[n])

\* the response null, returned with its raw text and the one last-resort comment
C11_Witness ==
  /\ normPc = "done"
  /\ source.wrapper = "odd"
  /\ responseText = <<"n", "u", "l", "l">>
  /\ returned.rawResponse = responseText
  /\ returned.comments = <<TextComment(responseText)>>

RecognizedKeys == {K_username, K_text, K_timestamp, K_likes}

\* C12: every comment of every returned result has a text field, no key other
\* than username, text, timestamp and likes, and no field set to null.
C12_CommentsHaveTheCommentShape ==
  normPc = "done" =>
    \A n \in 1..Len(returned.comments) :
      LET comment == returned.comments[n] IN
      /\ comment.t = "obj"
      /\ HasMember(comment, K_text)
      /\ \A m \in 1..Len(comment.v) :
           comment.v[m].k \in RecognizedKeys /\ comment.v[m].val.t # "null"

\* C16: a response made of a fenced block that is not JSON followed by a valid
\* document {"comments": [...]} outside the fence is normalized to the comments
\* of that document (the span from the first { to the last } of the raw text).
C16_BraceSpanOfRawTextAfterFence ==
  (normPc = "done" /\ source.wrapper = "besideFence") => normalized = source.doc

\* the value of a scraped fragment: what follows the label, the colons and
\* blanks after it and one optional quote, up to the next quote or line end
FragmentValue(pattern) ==
  LET n == LabelLenAt(pattern, 1)
      run == SeparatorRun(pattern, n + 1)
      k == MaxOf({j \in 1..run : ValueMatchEnd(pattern, n + 1 + j) # 0})
      q == n + 1 + k
      from == IF At(pattern, q) \in {QUOTE, APOS} THEN q + 1 ELSE q
  IN  SubSeq(pattern, from, ValueRunEnd(pattern, from))

\* C17: when structured parsing fails and the response holds label: value
\* fragments, each scraped comment has the one field text and its text is the
\* value that follows the label, not the label or the whole fragment.
C17_ScrapedTextIsTheValue ==
  (normPc = "done" /\ source.wrapper = "prose" /\ HasLabelFragment(responseText)) =>
    LET patterns == commentPatterns(responseText, 1) IN
    /\ Len(normalized) = Len(patterns)
    /\ \A n \in 1..Len(normalized) :
         /\ IsTextOnly(normalized[n])
         /\ normalized[n].v[1].val.v = FragmentValue(patterns[n])

RECURSIVE ScanCell(_, _, _, _)
ScanCell(text, n, mode, cell) ==
  LET c == At(text, n) IN
  IF c = "" THEN [cell |-> cell, next |-> n, sep |-> ""]
  ELSE IF mode = "quoted" THEN
    IF c = QUOTE THEN
      IF At(text, n + 1) = QUOTE
      THEN ScanCell(text, n + 2, "quoted", Append(cell, QUOTE))
      ELSE ScanCell(text, n + 1, "closed", cell)
    ELSE ScanCell(text, n + 1, "quoted", Append(cell, c))
  ELSE IF c = "," \/ c = NL THEN [cell |-> cell, next |-> n + 1, sep |-> c]
  ELSE IF c = QUOTE /\ mode = "start" THEN ScanCell(text, n + 1, "quoted", cell)
  ELSE ScanCell(text, n + 1, IF mode = "closed" THEN "closed" ELSE "plain", Append(cell, c))

\* the record that starts at index n
RECURSIVE ScanRecord(_, _, _)
ScanRecord(text, n, record) ==
  LET r == ScanCell(text, n, "start", <<>>) IN
  IF r.sep = ","
  THEN ScanRecord(text, r.next, Append(record, r.cell))
  ELSE [record |-> Append(record, r.cell), next |-> r.next, sep |-> r.sep]

RECURSIVE ScanRecords(_, _, _)
ScanRecords(text, n, records) ==
  LET r == ScanRecord(text, n, <<>>) IN
  IF r.sep = NL
  THEN ScanRecords(text, r.next, Append(records, r.record))
  ELSE Append(records, r.record)

ParseCSV(text) == ScanRecords(text, 1, <<>>)

NeedsQuotes(str) == \E n \in 1..Len(str) : str[n] \in {",", QUOTE, NL}

QuoteCount(str) == Cardinality({n \in 1..Len(str) : str[n] = QUOTE})

\* C13: escapeCSV returns the empty field for an empty or absent value; a
\* string is wrapped in quotes, its quotes doubled, exactly when it holds a
\* comma, a quote or a newline, and is returned unchanged otherwise; read back
\* with the CSV quote rules, alone or between other cells of a row, the escaped
\* field gives the original string.
C13_EscapeRoundTrip ==
  (exportPc = "done" /\ escaped.kind # "none") =>
    /\ escaped.kind = "returned"
    /\ field.t # "str" => escaped.text = <<>>
    /\ field.t = "str" =>
         /\ IF NeedsQuotes(field.v)
            THEN /\ Len(escaped.text) = Len(field.v) + QuoteCount(field.v) + 2
                 /\ Head(escaped.text) = QUOTE
                 /\ escaped.text[Len(escaped.text)] = QUOTE
            ELSE escaped.text = field.v
         /\ ParseCSV(escaped.text) = << <<field.v>> >>
         /\ ParseCSV(<<"p", ",">> \o escaped.text \o <<",", "q", NL, "r">>)
              = << <<(<<"p">>), field.v, <<"q">>>>, <<(<<"r">>)>> >>

\* a field with a quote, a comma and a newline, escaped
C13_Witness ==
  /\ exportPc = "done"
  /\ field = JStr(<<QUOTE, ",", NL>>)
  /\ escaped.text = <<QUOTE, QUOTE, QUOTE, ",", NL, QUOTE>>

\* the text of a field of a comment: empty when the field is absent
FieldText(comment, k) ==
  IF HasMember(comment, k) THEN GetMember(comment, k).v ELSE <<>>

\* the records the claim expects: per result, per comment, the name of the
\* result and the four fields of the comment
RECURSIVE ExpectedRecords(_, _)
ExpectedRecords(rs, n) ==
  IF n > Len(rs) THEN <<>>
  ELSE [m \in 1..Len(rs[n].comments) |->
          << rs[n].imageName,
             FieldText(rs[n].comments[m], K_username),
             FieldText(rs[n].comments[m], K_text),
             FieldText(rs[n].comments[m], K_timestamp),
             FieldText(rs[n].comments[m], K_likes) >>]
       \o ExpectedRecords(rs, n + 1)

HeaderThenRecords ==
  /\ exported.kind = "file"
  /\ ParseCSV(exported.text) = <<headers>> \o ExpectedRecords(clientResults, 1)

\* C14 as stated: exporting a batch result gives the header row followed by
\* one record per comment, in result order and then comment order, each with
\* the name of its result and its fields in header order; results with no
\* comments give no record.
C14_ExportIsHeaderThenRecords ==
  (exportPc = "done" /\ Len(clientResults) > 0) => HeaderThenRecords

\* C14, amended: the same when the batch result holds at least one comment;
\* when it holds none, no file is produced (the page says that no comments
\* were found).
C14_ExportOfCommentsIsHeaderThenRecords ==
  (exportPc = "done" /\ Len(clientResults) > 0) =>
    IF ExpectedRecords(clientResults, 1) = <<>>
    THEN exported.kind = "toast" /\ exported.text = <<>>
    ELSE HeaderThenRecords

\* an export of two results, the first without comments, the second with two
C14_Witness ==
  /\ exportPc = "done"
  /\ Len(clientResults) = 2
  /\ clientResults[1].comments = <<>>
  /\ Len(clientResults[2].comments) = 2
  /\ exported.kind = "file"
  /\ Len(ParseCSV(exported.text)) = 3
\* what escapeCSV is declared for: a string, or a value that is absent
StringOrAbsent(val) == val.t \in {"str", "undef", "null"}

\* C21: exporting never fails on what the route returns: every username, text,
\* timestamp and likes value that reaches escapeCSV is a string or absent, and
\* the flattening and generateCSV end without throwing.
C21_ExportNeverFailsOnPipelineOutput ==
  /\ exportPc = "batch" =>
       /\ ~FlattenThrows(clientResults)
       /\ \A m \in 1..Len(allComments(clientResults)) :
            LET comment == allComments(clientResults)[m] IN
            /\ StringOrAbsent(comment.username)
            /\ StringOrAbsent(comment.text)
            /\ StringOrAbsent(comment.timestamp)
            /\ StringOrAbsent(comment.likes)
  /\ exportPc = "done" => exported.kind # "threw"

(***************************************************************************)
(* Properties of the page (checked under SpecClient)                       *)
(***************************************************************************)
\* C15: the API key the user enters is kept in the browser's local storage and
\* is never sent to a server: after any sequence of key edits and Process
\* clicks, the stored item is the key last typed and no request the page has
\* sent carries a key.
C15_KeyNeverLeavesTheBrowser ==
  /\ (localStorage.present /\ clientPc # "unmounted" /\ localStorage.value # "") =>
       localStorage.value = clientKey
  /\ \A n \in 1..Len(requests) : requests[n].apiKey = ""

\* C22: at most one batch request is in flight and isProcessing is true
\* exactly while one is; handleProcess sets it, and empties the results, as it
\* sends; every started request, answered or failed, resets isProcessing in
\* the end; after a failed request the results shown are empty.
C22_OneRequestInFlight ==
  /\ [](/\ pending <= 1
        /\ isProcessing <=> pending = 1
        /\ toast = "Processing Failed" => clientResults = <<>>)
  /\ [][Len(requests') > Len(requests) =>
          /\ ~isProcessing /\ isProcessing'
          /\ pending' = pending + 1
          /\ clientResults' = <<>>]_vars
  /\ (isProcessing ~> ~isProcessing)

\* two requests were sent, one after the other, and the second one failed
C22_Witness ==
  /\ Len(requests) = 2
  /\ pending = 0
  /\ ~isProcessing
  /\ toast = "Processing Failed"
  /\ clientResults = <<>>

(***************************************************************************)
(* Properties of FileUpload (checked under SpecUpload)                     *)
(***************************************************************************)
\* C23: the selected list never exceeds maxFiles.  A drop leaves the files
\* already there in place and puts the new ones after them in their order, as
\* many as there are slots left, and changes nothing when no slot is left;
\* removeFile(i) takes out the file at index i and nothing else, keeping the
\* order of the others.
C23_SelectedListWithinMaxFiles ==
  LET before == lastOp.acceptedFiles
      room == maxFiles - Len(before)
      added == IF room <= 0 THEN 0
               ELSE IF Len(lastOp.newFiles) < room THEN Len(lastOp.newFiles) ELSE room
  IN
  /\ Len(selectedFiles) <= maxFiles
  /\ lastOp.op = "drop" =>
       /\ Len(selectedFiles) = Len(before) + added
       /\ \A n \in 1..Len(before) : selectedFiles[n] = before[n]
       /\ \A n \in 1..added : selectedFiles[Len(before) + n] = lastOp.newFiles[n]
  /\ lastOp.op = "remove" =>
       /\ Len(selectedFiles) = Len(before) - 1
       /\ \A n \in 1..Len(selectedFiles) :
            selectedFiles[n] = IF n <= lastOp.index THEN before[n] ELSE before[n + 1]

\* two files dropped with one slot left: the first of them was added
C23_Witness ==
  /\ lastOp.op = "drop"
  /\ Len(lastOp.newFiles) = 2
  /\ maxFiles = 3
  /\ Len(lastOp.acceptedFiles) = 2
  /\ selectedFiles = lastOp.acceptedFiles \o <<lastOp.newFiles[1]>>
====
